---- MODULE Spec2Model ----
(***************************************************************************)
(* route53copy / route53delete: copying a Route53 hosted zone between two  *)
(* accounts and deleting a hosted zone, modelled from pkg/dns/route53.go,  *)
(* pkg/dns/dig.go and the two App.Run workflows.                           *)
(*                                                                         *)
(* Strings are sequences of tokens: a token is either the dot "." or a     *)
(* dot-free label, so strings.HasSuffix(s, ".") is a test on the last      *)
(* token and s + "." appends one token.                                    *)
(***************************************************************************)
EXTENDS Naturals, Integers, Sequences, FiniteSets, TLC

\* ------------------------------------------------------------------ bounds
\* longest record list handed to the pure functions
MaxRecs == 3
\* longest domain string handed to the string functions, in tokens
MaxLen == 3
\* CreateZone calls made against one clock
MaxCreates == 2
\* seconds the clock advances
MaxNow == 2
\* record sets per page of ListResourceRecordSets
PageSize == 2

\* ------------------------------------------------------- program constants
\* rrscwo.MinDelay = 15 * time.Second
MinDelay == 15
\* WaitForChange(ctx, id, 1*time.Minute) in CreateZone
CreateZoneMaxWait == 60
\* WaitForChange(ctx, id, 2*time.Minute) in both workflows
ChangeMaxWait == 120
\* MaxItems: aws.Int32(1)
MaxItems == 1

\* ------------------------------------------------------------------ strings
Dot == "."

HasSuffixDot(s) == Len(s) > 0 /\ s[Len(s)] = Dot

normalizeDomain(domain) ==
    IF HasSuffixDot(domain) THEN domain ELSE Append(domain, Dot)

denormalizeDomain_keepDot(domain) == domain

denormalizeDomain(domain) ==
    IF HasSuffixDot(domain) THEN SubSeq(domain, 1, Len(domain) - 1) ELSE domain

\* the names used by the model
DomainNoDot == <<"example", ".", "com">>
DomainDot == <<"example", ".", "com", ".">>
ApexName == DomainDot
WwwName == <<"www", ".", "example", ".", "com", ".">>
SubName == <<"sub", ".", "example", ".", "com", ".">>
OtherZoneName == <<"example", ".", "net", ".">>
Domains == {DomainNoDot, DomainDot}

\* --------------------------------------------------------------- record sets
Nil == "nil"

\* rtypes.ResourceRecordSet with its thirteen fields
RR(name, type, ttl, values, setId, weight) ==
    [Name |-> name, Type |-> type, AliasTarget |-> Nil, Failover |-> Nil,
     GeoLocation |-> Nil, HealthCheckId |-> Nil, MultiValueAnswer |-> Nil,
     Region |-> Nil, ResourceRecords |-> values, SetIdentifier |-> setId,
     TTL |-> ttl, TrafficPolicyInstanceId |-> Nil, Weight |-> weight]

IsNsOrSoa(rs) == rs.Type = "NS" \/ rs.Type = "SOA"

\* the copy made of one record set inside CreateChanges and DeleteRecords
CopyRecordSet(recordSet) ==
    [Name |-> recordSet.Name,
     Type |-> recordSet.Type,
     AliasTarget |-> recordSet.AliasTarget,
     Failover |-> recordSet.Failover,
     GeoLocation |-> recordSet.GeoLocation,
     HealthCheckId |-> recordSet.HealthCheckId,
     MultiValueAnswer |-> recordSet.MultiValueAnswer,
     Region |-> recordSet.Region,
     ResourceRecords |-> recordSet.ResourceRecords,
     SetIdentifier |-> recordSet.SetIdentifier,
     TTL |-> recordSet.TTL,
     TrafficPolicyInstanceId |-> recordSet.TrafficPolicyInstanceId,
     Weight |-> recordSet.Weight]

ChangeActionUpsert_delete == "DELETE"

\* Action: rtypes.ChangeActionUpsert
ChangeActionUpsert == "UPSERT"

RECURSIVE CreateChangesLoop(_, _, _, _)
CreateChangesLoop(domain, recordSets, i, changes) ==
    IF i > Len(recordSets) THEN changes
    ELSE LET recordSet == recordSets[i] IN
         IF IsNsOrSoa(recordSet) /\ recordSet.Name = domain
         THEN CreateChangesLoop(domain, recordSets, i + 1, changes)
         ELSE CreateChangesLoop(domain, recordSets, i + 1,
                  Append(changes, [Action |-> ChangeActionUpsert,
                                   ResourceRecordSet |-> CopyRecordSet(recordSet)]))

\* variants of CreateChanges: the name compared with the domain as given,
\* no exclusion at all, and the type-only exclusion that DeleteRecords applies
CreateChanges_rawDomain(domain, recordSets) ==
    CreateChangesLoop(domain, recordSets, 1, <<>>)

CreateChanges_copyAll(domain, recordSets) ==
    [i \in 1..Len(recordSets) |->
        [Action |-> "UPSERT", ResourceRecordSet |-> CopyRecordSet(recordSets[i])]]

CreateChanges_typeOnly(domain, recordSets) ==
    LET kept == SelectSeq(recordSets, LAMBDA r : ~IsNsOrSoa(r)) IN
    [i \in 1..Len(kept) |-> [Action |-> "UPSERT", ResourceRecordSet |-> kept[i]]]

CreateChanges(domain, recordSets) ==
    CreateChangesLoop(normalizeDomain(domain), recordSets, 1, <<>>)


\* the DELETE batch built by DeleteRecords: every NS and SOA record set is
\* skipped, whatever its name
RECURSIVE DeleteChangesLoop(_, _, _)
DeleteChangesLoop(records, i, changes) ==
    IF i > Len(records) THEN changes
    ELSE LET record == records[i] IN
         IF record.Type = "NS" \/ record.Type = "SOA"
         THEN DeleteChangesLoop(records, i + 1, changes)
         ELSE DeleteChangesLoop(records, i + 1,
                  Append(changes, [Action |-> "DELETE",
                                   ResourceRecordSet |-> CopyRecordSet(record)]))

DeleteChanges(records) == DeleteChangesLoop(records, 1, <<>>)

\* ---------------------------------------------------------------- NS checks
findInList(ns, name) == \E i \in 1..Len(ns) : ns[i].Name = name

RECURSIVE MatchLoop(_, _, _)
MatchLoop(ns, values, i) ==
    IF i > Len(values) THEN TRUE
    ELSE IF ~findInList(ns, denormalizeDomain(values[i])) THEN FALSE
    ELSE MatchLoop(ns, values, i + 1)

\* the two lists compared position by position
MatchNSRecords_positional(ns, rs) ==
    /\ Len(ns) = Len(rs.ResourceRecords)
    /\ \A i \in 1..Len(ns) : ns[i].Name = denormalizeDomain(rs.ResourceRecords[i])

MatchNSRecords(ns, rs) == MatchLoop(ns, rs.ResourceRecords, 1)

nameserversFromRecords_raw(rs) ==
    [i \in 1..Len(rs.ResourceRecords) |-> [Name |-> rs.ResourceRecords[i]]]

nameserversFromRecords(rs) ==
    [i \in 1..Len(rs.ResourceRecords) |->
        [Name |-> denormalizeDomain(rs.ResourceRecords[i])]]

\* result of a lookup that can fail
Ok(v) == [kind |-> "ok", val |-> v]
Fail(e) == [kind |-> e, val |-> Nil]

\* GetNSRecords, after the listing: the first record set of type NS
RECURSIVE FirstNS(_, _)
FirstNS(records, i) ==
    IF i > Len(records) THEN Fail("NoNSRecords")
    ELSE IF records[i].Type # "NS" THEN FirstNS(records, i + 1)
    ELSE Ok(records[i])

GetNSRecords(records) == FirstNS(records, 1)

\* dns.FindNSRecord: the zone's own NS record set, an error when there is none
FindNSRecord(recordSets, apex) ==
    LET own == SelectSeq(recordSets, LAMBDA r : r.Type = "NS" /\ r.Name = apex) IN
    IF Len(own) = 0 THEN Fail("NoNSRecords") ELSE Ok(own[1])

\* dns.RemoveResourceRecordsWithTypes: the deletion set, apex records of the
\* given types left out
RemoveResourceRecordsWithTypes(recordSets, types, apex) ==
    SelectSeq(recordSets, LAMBDA r : ~(r.Type \in types /\ r.Name = apex))

\* ----------------------------------------------------------- GetHostedZone
\* the decision taken on the response of ListHostedZonesByName
GetHostedZone_firstResult(resp, domain) ==
    IF Len(resp) = 0 THEN Fail("HostedZoneNotFound") ELSE Ok(resp[1])

GetHostedZone(resp, domain) ==
    IF Len(resp) = 0 THEN Fail("HostedZoneNotFound")
    ELSE IF resp[1].Name # normalizeDomain(domain) THEN Fail("HostedZoneNotFound")
    ELSE Ok(resp[1])


\* ------------------------------------------------- the provider (Route53)
\* a zone held by an account: [Id, Name, Records], Records in listing order
NsSrc1 == <<"ns-src1", ".">>
NsSrc2 == <<"ns-src2", ".">>
NsDst1 == <<"ns-dst1", ".">>
NsDst2 == <<"ns-dst2", ".">>
NsNew1 == <<"ns-new1", ".">>
NsDeleg == <<"ns-deleg", ".">>
SoaSrc == <<"soa-src", ".">>
SoaDst == <<"soa-dst", ".">>
SoaNew == <<"soa-new", ".">>

SrcNS == RR(ApexName, "NS", 172800, <<NsSrc1, NsSrc2>>, Nil, Nil)
SrcSOA == RR(ApexName, "SOA", 900, <<SoaSrc>>, Nil, Nil)
DstNS == RR(ApexName, "NS", 172800, <<NsDst1, NsDst2>>, Nil, Nil)
DstSOA == RR(ApexName, "SOA", 900, <<SoaDst>>, Nil, Nil)
SubNS == RR(SubName, "NS", 300, <<NsDeleg>>, Nil, Nil)
WwwA == RR(WwwName, "A", 300, <<<<"1-2-3-4">>>>, Nil, Nil)
WwwAOld == RR(WwwName, "A", 60, <<<<"9-9-9-9">>>>, Nil, Nil)
WwwTXT == RR(WwwName, "TXT", 60, <<<<"keep">>>>, Nil, Nil)

\* listing order of the provider: by name, then type, then set identifier
NameRank(name) ==
    CASE name = ApexName -> 1
      [] name = SubName -> 2
      [] name = WwwName -> 3
      [] OTHER -> 4

TypeRank(type) ==
    CASE type = "A" -> 1
      [] type = "NS" -> 2
      [] type = "SOA" -> 3
      [] OTHER -> 4

RecKey(r) ==
    NameRank(r.Name) * 100 + TypeRank(r.Type) * 10
        + (IF r.SetIdentifier = Nil THEN 0 ELSE 1)

SameIdentity(r, q) ==
    r.Name = q.Name /\ r.Type = q.Type /\ r.SetIdentifier = q.SetIdentifier

\* UPSERT of one record set into a listing
Upsert(records, r) ==
    IF \E i \in 1..Len(records) : SameIdentity(records[i], r)
    THEN [i \in 1..Len(records) |->
             IF SameIdentity(records[i], r) THEN r ELSE records[i]]
    ELSE SelectSeq(records, LAMBDA q : RecKey(q) < RecKey(r))
         \o <<r>> \o SelectSeq(records, LAMBDA q : RecKey(q) >= RecKey(r))

\* a DELETE is valid only for a record set the zone holds with these values
CanDelete(records, r) == \E i \in 1..Len(records) : records[i] = r

Remove(records, r) == SelectSeq(records, LAMBDA q : q # r)

RECURSIVE ApplyBatch(_, _, _)
ApplyBatch(records, batch, i) ==
    IF i > Len(batch) THEN Ok(records)
    ELSE LET c == batch[i] IN
         IF c.Action = "UPSERT"
         THEN ApplyBatch(Upsert(records, c.ResourceRecordSet), batch, i + 1)
         ELSE IF CanDelete(records, c.ResourceRecordSet)
              THEN ApplyBatch(Remove(records, c.ResourceRecordSet), batch, i + 1)
              ELSE Fail("InvalidChangeBatch")

\* ChangeResourceRecordSets: a batch needs at least one change and is applied
\* as a whole or not at all
SubmitBatch(records, batch) ==
    IF Len(batch) = 0 THEN Fail("InvalidChangeBatch") ELSE ApplyBatch(records, batch, 1)

\* a zone can be deleted only when nothing but its apex NS and SOA is left
ZoneIsEmpty(z) ==
    \A i \in 1..Len(z.Records) :
        IsNsOrSoa(z.Records[i]) /\ z.Records[i].Name = z.Name

ZoneRank(name) == IF name = DomainDot THEN 1 ELSE 2

\* the provider's own reading of a DNS name
Fqdn(name) == IF HasSuffixDot(name) THEN name ELSE name \o <<Dot>>

\* ListHostedZonesByName: the zones from dnsName on, at most MaxItems of them
ListHostedZonesByName(zs, dnsName) ==
    LET from == SelectSeq(zs, LAMBDA z : ZoneRank(z.Name) >= ZoneRank(Fqdn(dnsName)))
    IN  SubSeq(from, 1, IF Len(from) < MaxItems THEN Len(from) ELSE MaxItems)

InsertZone(zs, z) ==
    SelectSeq(zs, LAMBDA q : ZoneRank(q.Name) <= ZoneRank(z.Name))
    \o <<z>> \o SelectSeq(zs, LAMBDA q : ZoneRank(q.Name) > ZoneRank(z.Name))

HasZone(zs, id) == \E i \in 1..Len(zs) : zs[i].Id = id
ZoneById(zs, id) == zs[CHOOSE i \in 1..Len(zs) : zs[i].Id = id]
RemoveZone(zs, id) == SelectSeq(zs, LAMBDA z : z.Id # id)
SetRecords(zs, id, recs) ==
    [i \in 1..Len(zs) |-> IF zs[i].Id = id THEN [zs[i] EXCEPT !.Records = recs]
                          ELSE zs[i]]

\* rtypes.HostedZone as the program sees it
HostedZone(z) == [Id |-> z.Id, Name |-> z.Name, ResourceRecordSetCount |-> Len(z.Records)]
HostedZones(zs) == [i \in 1..Len(zs) |-> HostedZone(zs[i])]


\* -------------------------------------------------------------------- state
VARIABLES
    cmd,          \* "copy" (cmd/route53copy) or "delete" (route53delete)
    Domain,       \* App.Domain, as typed by the operator
    DryRun,       \* App.DryRun
    Force,        \* App.Force, set by Run when the domain does not resolve
    UpdateNS,     \* App.UpdateNS
    zones,        \* account -> hosted zones of the account, in listing order
    registrar,    \* nameservers on file at the registrar for the domain
    changeStatus, \* change id -> "PENDING" | "INSYNC"
    cancelled,    \* the context handed to Run has been cancelled
    pc,           \* position of Run
    err,          \* the error Run returned, "none" for nil
    loc,          \* local variables of Run
    pager,        \* the ListResourceRecordSets paginator
    waiter,       \* the ResourceRecordSetsChanged waiter
    calls,        \* every API call issued so far, with its outcome
    ghz,          \* response and result of the last GetHostedZone
    zones0,       \* zones at the start of the run
    registrar0,   \* registrar at the start of the run
    forceFlag,    \* --force as given on the command line
    pstate,       \* position of the pure-function harness
    pdomain,      \* its domain argument
    precs,        \* its record-set argument
    pchanges,     \* the result of CreateChanges
    parg,         \* the arguments of the other pure functions
    pout          \* the result of the other pure functions

flags == <<cmd, Domain, DryRun, UpdateNS, zones0, registrar0, forceFlag>>
pvars == <<pstate, pdomain, precs, pchanges, parg, pout>>
mvars == <<flags, Force, zones, registrar, changeStatus, cancelled, pc, err,
           loc, pager, waiter, calls, ghz>>
vars == <<mvars, pvars>>

Min(a, b) == IF a < b THEN a ELSE b

\* ------------------------------------------------------------ initial states
OtherZone(id) ==
    [Id |-> id, Name |-> OtherZoneName,
     Records |-> <<RR(OtherZoneName, "NS", 172800, <<NsDst2>>, Nil, Nil),
                   RR(OtherZoneName, "SOA", 900, <<SoaDst>>, Nil, Nil)>>]

SrcListings ==
    { <<SrcNS, SrcSOA>>,
      <<SrcNS, SrcSOA, WwwA>>,
      <<SrcNS, SrcSOA, SubNS, WwwA>> }

DstListings ==
    { <<DstNS, DstSOA>>,
      <<DstNS, DstSOA, WwwAOld, WwwTXT>> }

SrcAccounts ==
    { <<>>, <<OtherZone("Zsrc-other")>> }
    \cup { <<[Id |-> "Zsrc", Name |-> DomainDot, Records |-> l]>> : l \in SrcListings }

DstAccounts ==
    { <<>>, <<OtherZone("Zdst-other")>> }
    \cup { <<[Id |-> "Zdst", Name |-> DomainDot, Records |-> l]>> : l \in DstListings }

Registrars ==
    { <<[Name |-> <<"ns-dst1">>], [Name |-> <<"ns-dst2">>]>>,
      <<[Name |-> <<"ns-old">>]>>,
      <<[Name |-> <<"ns-dst2">>], [Name |-> <<"ns-old">>], [Name |-> <<"ns-dst1">>]>> }

\* what the recursive resolver can answer to the NS question
ResolverAnswers ==
    { <<NsSrc1, NsSrc2>>, <<NsSrc2, NsSrc1, NsDst1>>, <<NsDst1>>, <<>> }

NoLoc ==
    [srcZoneID |-> Nil, dstZoneID |-> Nil, recordSets |-> <<>>, changes |-> <<>>,
     ns |-> <<>>, nsOutcome |-> Nil, nsRecords |-> RR(<<>>, Nil, 0, <<>>, Nil, Nil), prompt |-> Nil,
     records |-> <<>>, ddo |-> <<>>, updated |-> FALSE]

NewPager == [first |-> TRUE, token |-> 0]
NoWaiter == [acct |-> Nil, id |-> 0, remaining |-> 0, ret |-> Nil]
NoGhz == [acct |-> Nil, res |-> Nil, resp |-> <<>>, result |-> Fail(Nil)]

PureIdle ==
    /\ pstate = "off"
    /\ pdomain = <<>>
    /\ precs = <<>>
    /\ pchanges = <<>>
    /\ parg = <<>>
    /\ pout = <<>>

Init ==
    /\ cmd \in {"copy", "delete"}
    /\ Domain \in Domains
    /\ DryRun \in BOOLEAN
    /\ forceFlag \in (IF cmd = "delete" THEN BOOLEAN ELSE {FALSE})
    /\ Force = forceFlag
    /\ UpdateNS \in (IF cmd = "copy" THEN BOOLEAN ELSE {FALSE})
    /\ \E s \in SrcAccounts :
       \E d \in (IF cmd = "copy" THEN DstAccounts ELSE {<<>>}) :
           zones = [a \in {"src", "dst"} |-> IF a = "src" THEN s ELSE d]
    /\ zones0 = zones
    /\ registrar \in (IF UpdateNS THEN Registrars
                      ELSE {<<[Name |-> <<"ns-old">>]>>})
    /\ registrar0 = registrar
    /\ changeStatus = <<>>
    /\ cancelled = FALSE
    /\ pc = IF cmd = "copy" THEN "c_getzone" ELSE "d_getzone"
    /\ err = "none"
    /\ loc = NoLoc
    /\ pager = NewPager
    /\ waiter = NoWaiter
    /\ calls = <<>>
    /\ ghz = NoGhz
    /\ PureIdle


\* ------------------------------------------------------------ shared pieces
\* an API call on a cancelled context fails; otherwise it succeeds or the
\* provider reports an error
ApiResults == IF cancelled THEN {"cancelled"} ELSE {"ok", "api"}

\* id: the change the call returned or asked about, 0 when there is none
Log(acct, op, arg, batch, res, id) ==
    Append(calls, [acct |-> acct, op |-> op, arg |-> arg, batch |-> batch,
                   res |-> res, id |-> id, status |-> Nil])

\* a call that returns a ChangeInfo: status is the ChangeInfo.Status of the
\* response, Nil when the call failed
LogSubmit(acct, op, arg, batch, res, id, status) ==
    Append(calls, [acct |-> acct, op |-> op, arg |-> arg, batch |-> batch,
                   res |-> res, id |-> id,
                   status |-> IF res = "ok" THEN status ELSE Nil])

Return_nil(e) == pc' = "done" /\ err' = "none"

\* Run returns e (nil when e = "none")
Return(e) == pc' = "done" /\ err' = e

\* r.GetHostedZone(ctx, Domain) on an account, the API answering res
LookupZone(acct, res) ==
    LET resp == IF res = "ok"
                THEN HostedZones(ListHostedZonesByName(zones[acct], Domain))
                ELSE <<>>
    IN  [acct |-> acct, res |-> res, resp |-> resp,
         result |-> IF res = "ok" THEN GetHostedZone(resp, Domain) ELSE Fail(res)]

HasMorePages_firstOnly(p) == p.first

\* the paginator of ListResourceRecordSets
HasMorePages(p) == p.first \/ p.token # 0
PageStart(p) == IF p.first THEN 1 ELSE p.token
PageOf(records, p) ==
    SubSeq(records, PageStart(p), Min(PageStart(p) + PageSize - 1, Len(records)))
NextToken(records, p) ==
    IF PageStart(p) + PageSize <= Len(records) THEN PageStart(p) + PageSize ELSE 0

\* one turn of the loop of GetResourceRecords: the page is appended to acc
GetResourceRecordsTurn(acct, zoneId, acc, res) ==
    IF res # "ok" THEN [kind |-> res, records |-> acc, pager |-> pager]
    ELSE IF ~HasZone(zones[acct], zoneId)
    THEN [kind |-> "NoSuchHostedZone", records |-> acc, pager |-> pager]
    ELSE LET all == ZoneById(zones[acct], zoneId).Records
             p == [first |-> FALSE, token |-> NextToken(all, pager)]
         IN  [kind |-> IF HasMorePages(p) THEN "more" ELSE "done",
              records |-> acc \o PageOf(all, pager),
              pager |-> p]

\* WaitForChange(ctx, id, maxWait) is entered; ret is where Run goes on
StartWait(acct, id, maxWait, ret) ==
    /\ waiter' = [acct |-> acct, id |-> id, remaining |-> maxWait, ret |-> ret]
    /\ pc' = "wait"

\* the waiter gives up when less than one MinDelay of maxWait is left
TimedOut_always(remaining) == TRUE

TimedOut(remaining) == remaining < MinDelay

\* the delays the waiter can sleep between two polls
Delays(remaining) == {d \in {MinDelay, 2 * MinDelay} : d <= remaining}

\* one poll of the waiter: GetChange, then success, timeout or a sleep
WaitForChange ==
    /\ pc = "wait"
    /\ \E res \in ApiResults :
         LET status == IF res = "ok" THEN changeStatus[waiter.id] ELSE res IN
         /\ calls' = Log(waiter.acct, "GetChange", Nil, <<>>, status, waiter.id)
         /\ IF res # "ok"
            THEN Return(res) /\ UNCHANGED waiter
            ELSE IF status = "INSYNC"
            THEN pc' = waiter.ret /\ UNCHANGED <<err, waiter>>
            ELSE IF TimedOut(waiter.remaining)
            THEN Return("timeout") /\ UNCHANGED waiter
            ELSE \E delay \in Delays(waiter.remaining) :
                   /\ waiter' = [waiter EXCEPT !.remaining = @ - delay]
                   /\ UNCHANGED <<pc, err>>
    /\ UNCHANGED <<flags, Force, zones, registrar, changeStatus, cancelled,
                   loc, pager, ghz, pvars>>

\* the provider finishes propagating a change
Propagate ==
    /\ pc # "done"
    /\ pc # "off"
    /\ \E c \in DOMAIN changeStatus :
         /\ changeStatus[c] = "PENDING"
         /\ changeStatus' = [changeStatus EXCEPT ![c] = "INSYNC"]
    /\ UNCHANGED <<flags, Force, zones, registrar, cancelled, pc, err, loc,
                   pager, waiter, calls, ghz, pvars>>

\* the caller cancels the context of Run
Cancel ==
    /\ pc # "done"
    /\ pc # "off"
    /\ ~cancelled
    /\ cancelled' = TRUE
    /\ UNCHANGED <<flags, Force, zones, registrar, changeStatus, pc, err, loc,
                   pager, waiter, calls, ghz, pvars>>

\* status a freshly submitted change is reported with
SubmitStatuses == {"PENDING", "INSYNC"}


\* ------------------------------------------------- route53delete: App.Run
\* zone, err := srcManager.GetHostedZone(ctx, a.Domain)
DeleteGetZone ==
    /\ pc = "d_getzone"
    /\ \E res \in ApiResults :
         LET g == LookupZone("src", res) IN
         /\ ghz' = g
         /\ calls' = Log("src", "ListHostedZonesByName", Domain, <<>>, res, 0)
         /\ IF g.result.kind = "ok"
            THEN /\ loc' = [loc EXCEPT !.srcZoneID = g.result.val.Id]
                 /\ pc' = "d_records"
                 /\ UNCHANGED err
            ELSE Return(g.result.kind) /\ UNCHANGED loc
    /\ pager' = NewPager
    /\ UNCHANGED <<flags, Force, zones, registrar, changeStatus, cancelled,
                   waiter, pvars>>

\* recordSets, err := srcManager.GetResourceRecords(ctx, srcZoneID)
DeleteGetRecords ==
    /\ pc = "d_records"
    /\ \E res \in ApiResults :
         LET t == GetResourceRecordsTurn("src", loc.srcZoneID, loc.recordSets, res) IN
         /\ calls' = Log("src", "ListResourceRecordSets", loc.srcZoneID, <<>>, res, 0)
         /\ pager' = t.pager
         /\ loc' = [loc EXCEPT !.recordSets = t.records]
         /\ IF t.kind = "more" THEN UNCHANGED <<pc, err>>
            ELSE IF t.kind = "done" THEN pc' = "d_resolve" /\ UNCHANGED err
            ELSE Return(t.kind)
    /\ UNCHANGED <<flags, Force, zones, registrar, changeStatus, cancelled,
                   waiter, ghz, pvars>>

\* GetNameserversFor(domain): the answers, trailing dot stripped
ParseAnswers(answer) ==
    [i \in 1..Len(answer) |-> [Name |-> denormalizeDomain(answer[i])]]

\* what Run does from the NS query up to the dry-run exit, the resolver
\* having answered out
ShouldAbort_never(ns, nsRecords, force) == FALSE

\* if dns.MatchNSRecords(ns, nsRecords) && !a.Force: nothing is deleted
ShouldAbort(ns, nsRecords, force) == MatchNSRecords(ns, nsRecords) /\ ~force

ForceAfterResolve_asGiven(kind, force) == force

\* case *dns.NSRecordNotFound: a.Force = true
ForceAfterResolve(kind, force) == IF kind = "notfound" THEN TRUE ELSE force

DeleteDecide(out) ==
    LET force == ForceAfterResolve(out.kind, Force)
        ns == IF out.kind = "ok" THEN ParseAnswers(out.answer) ELSE <<>>
        nsr == FindNSRecord(loc.recordSets, normalizeDomain(Domain))
        l1 == [loc EXCEPT !.ns = ns, !.nsOutcome = out.kind]
    IN  IF out.kind = "err"
        THEN [pc |-> "done", err |-> "resolver", force |-> Force, loc |-> l1]
        ELSE IF nsr.kind # "ok"
        THEN [pc |-> "done", err |-> nsr.kind, force |-> force, loc |-> l1]
        ELSE IF ShouldAbort(ns, nsr.val, force)
        THEN [pc |-> "done", err |-> "none", force |-> force,
              loc |-> [l1 EXCEPT !.nsRecords = nsr.val]]
        ELSE [pc |-> IF DryRun THEN "done" ELSE "d_prompt",
              err |-> "none", force |-> force,
              loc |-> [l1 EXCEPT !.nsRecords = nsr.val,
                                 !.recordSets = RemoveResourceRecordsWithTypes(
                                     loc.recordSets, {"NS", "SOA"},
                                     normalizeDomain(Domain))]]

ResolverOutcomes ==
    {[kind |-> "err", answer |-> <<>>], [kind |-> "notfound", answer |-> <<>>]}
    \cup {[kind |-> "ok", answer |-> a] : a \in ResolverAnswers}

DeleteResolve ==
    /\ pc = "d_resolve"
    /\ \E out \in ResolverOutcomes :
         LET d == DeleteDecide(out) IN
         /\ pc' = d.pc
         /\ err' = d.err
         /\ Force' = d.force
         /\ loc' = d.loc
    /\ UNCHANGED <<flags, zones, registrar, changeStatus, cancelled, pager,
                   waiter, calls, ghz, pvars>>

\* what the operator can do at the "Delete all records?" prompt
PromptAnswers == {"y", "Y", "n", "err"}

\* the run goes on after the prompt only on the answer "y"
Confirmed_any(answer) == TRUE

Confirmed(answer) == answer # "err" /\ answer = "y"

DeletePrompt ==
    /\ pc = "d_prompt"
    /\ \E answer \in PromptAnswers :
         /\ loc' = [loc EXCEPT !.prompt = answer]
         /\ IF Confirmed(answer)
            THEN pc' = "d_delrecords" /\ UNCHANGED err
            ELSE Return("none")
    /\ UNCHANGED <<flags, Force, zones, registrar, changeStatus, cancelled,
                   pager, waiter, calls, ghz, pvars>>

\* err = srcManager.WaitForChange(ctx, drchID, 2*time.Minute), then the zone
AfterDeleteRecords_noWait(drchID) == pc' = "d_delzone" /\ UNCHANGED waiter

AfterDeleteRecords(drchID) == StartWait("src", drchID, ChangeMaxWait, "d_delzone")

\* err = srcManager.WaitForChange(ctx, chID, 2*time.Minute), then return nil
AfterDeleteHostedZone_noWait(chID) == pc' = "done" /\ UNCHANGED waiter

AfterDeleteHostedZone(chID) == StartWait("src", chID, ChangeMaxWait, "done")

\* drchID, err := srcManager.DeleteRecords(ctx, srcZoneID, recordSets)
DeleteRecords ==
    /\ pc = "d_delrecords"
    /\ \E res \in ApiResults, st \in SubmitStatuses :
         LET batch == DeleteChanges(loc.recordSets)
             applied == IF res # "ok" THEN Fail(res)
                        ELSE SubmitBatch(ZoneById(zones["src"], loc.srcZoneID).Records,
                                         batch)
         IN
         /\ calls' = LogSubmit("src", "ChangeResourceRecordSets", loc.srcZoneID, batch,
                               applied.kind,
                               IF applied.kind = "ok" THEN Len(changeStatus) + 1 ELSE 0,
                               st)
         /\ IF applied.kind = "ok"
            THEN /\ zones' = [zones EXCEPT
                                 !["src"] = SetRecords(@, loc.srcZoneID, applied.val)]
                 /\ changeStatus' = Append(changeStatus, st)
                 /\ AfterDeleteRecords(Len(changeStatus) + 1)
                 /\ UNCHANGED err
            ELSE /\ Return(applied.kind)
                 /\ st = "PENDING"
                 /\ UNCHANGED <<zones, changeStatus, waiter>>
    /\ UNCHANGED <<flags, Force, registrar, cancelled, loc, pager, ghz, pvars>>

\* chID, err := srcManager.DeleteHostedZone(ctx, srcZoneID)
DeleteHostedZone ==
    /\ pc = "d_delzone"
    /\ \E res \in ApiResults, st \in SubmitStatuses :
         LET outcome == IF res # "ok" THEN res
                        ELSE IF ~ZoneIsEmpty(ZoneById(zones["src"], loc.srcZoneID))
                        THEN "HostedZoneNotEmpty"
                        ELSE "ok"
         IN
         /\ calls' = LogSubmit("src", "DeleteHostedZone", loc.srcZoneID, <<>>, outcome,
                               IF outcome = "ok" THEN Len(changeStatus) + 1 ELSE 0, st)
         /\ IF outcome = "ok"
            THEN /\ zones' = [zones EXCEPT !["src"] = RemoveZone(@, loc.srcZoneID)]
                 /\ changeStatus' = Append(changeStatus, st)
                 /\ AfterDeleteHostedZone(Len(changeStatus) + 1)
                 /\ UNCHANGED err
            ELSE /\ Return(outcome)
                 /\ st = "PENDING"
                 /\ UNCHANGED <<zones, changeStatus, waiter>>
    /\ UNCHANGED <<flags, Force, registrar, cancelled, loc, pager, ghz, pvars>>


\* --------------------------------------------------- route53copy: App.Run
\* zone, err := srcService.GetHostedZone(ctx, a.Domain)
CopyGetZone ==
    /\ pc = "c_getzone"
    /\ \E res \in ApiResults :
         LET g == LookupZone("src", res) IN
         /\ ghz' = g
         /\ calls' = Log("src", "ListHostedZonesByName", Domain, <<>>, res, 0)
         /\ IF g.result.kind = "ok"
            THEN /\ loc' = [loc EXCEPT !.srcZoneID = g.result.val.Id]
                 /\ pc' = "c_records"
                 /\ UNCHANGED err
            ELSE Return(g.result.kind) /\ UNCHANGED loc
    /\ pager' = NewPager
    /\ UNCHANGED <<flags, Force, zones, registrar, changeStatus, cancelled,
                   waiter, pvars>>

\* if a.DryRun { report } else { get or create, update, ... }
CopyBranch_ignoreDry(dry) == "c_getorcreate"

CopyBranch(dry) == IF dry THEN "c_drydst" ELSE "c_getorcreate"

\* recordSets, err := srcService.GetResourceRecords(ctx, srcZoneID), then
\* changes := srcService.CreateChanges(a.Domain, recordSets)
CopyGetRecords ==
    /\ pc = "c_records"
    /\ \E res \in ApiResults :
         LET t == GetResourceRecordsTurn("src", loc.srcZoneID, loc.recordSets, res) IN
         /\ calls' = Log("src", "ListResourceRecordSets", loc.srcZoneID, <<>>, res, 0)
         /\ pager' = t.pager
         /\ IF t.kind = "more"
            THEN /\ loc' = [loc EXCEPT !.recordSets = t.records]
                 /\ UNCHANGED <<pc, err>>
            ELSE IF t.kind = "done"
            THEN /\ loc' = [loc EXCEPT !.recordSets = t.records,
                                       !.changes = CreateChanges(Domain, t.records)]
                 /\ pc' = CopyBranch(DryRun)
                 /\ UNCHANGED err
            ELSE /\ loc' = [loc EXCEPT !.recordSets = t.records]
                 /\ Return(t.kind)
    /\ UNCHANGED <<flags, Force, zones, registrar, changeStatus, cancelled,
                   waiter, ghz, pvars>>

DryRunResult_report(kind) == "none"

\* if err != nil { return err }; the record count is logged; return nil
DryRunResult(kind) == IF kind = "ok" THEN "none" ELSE kind

\* --dry: zone, err := dstService.GetHostedZone(ctx, a.Domain)
CopyDryRun ==
    /\ pc = "c_drydst"
    /\ \E res \in ApiResults :
         LET g == LookupZone("dst", res) IN
         /\ ghz' = g
         /\ calls' = Log("dst", "ListHostedZonesByName", Domain, <<>>, res, 0)
         /\ Return(DryRunResult(g.result.kind))
    /\ UNCHANGED <<flags, Force, zones, registrar, changeStatus, cancelled,
                   loc, pager, waiter, pvars>>

\* GetOrCreateZone: zone, err = r.GetHostedZone(ctx, domain)
CopyGetOrCreateZone ==
    /\ pc = "c_getorcreate"
    /\ \E res \in ApiResults :
         LET g == LookupZone("dst", res) IN
         /\ ghz' = g
         /\ calls' = Log("dst", "ListHostedZonesByName", Domain, <<>>, res, 0)
         /\ IF g.result.kind = "ok"
            THEN /\ loc' = [loc EXCEPT !.dstZoneID = g.result.val.Id]
                 /\ pc' = "c_update"
                 /\ UNCHANGED err
            ELSE IF g.result.kind = "HostedZoneNotFound"
            THEN pc' = "c_createzone" /\ UNCHANGED <<err, loc>>
            ELSE Return(g.result.kind) /\ UNCHANGED loc
    /\ UNCHANGED <<flags, Force, zones, registrar, changeStatus, cancelled,
                   pager, waiter, pvars>>

\* the zone the provider creates: its own NS and SOA at the apex
NewZone(name) ==
    [Id |-> "Znew", Name |-> Fqdn(name),
     Records |-> <<RR(Fqdn(name), "NS", 172800, <<NsNew1>>, Nil, Nil),
                   RR(Fqdn(name), "SOA", 900, <<SoaNew>>, Nil, Nil)>>]

CreateZoneWaits_never(status) == FALSE

\* if resp.ChangeInfo.Status != types.ChangeStatusInsync: WaitForChange
CreateZoneWaits(status) == status # "INSYNC"

\* CreateZone: r.cli.CreateHostedZone, then the wait when not yet in sync
CopyCreateZone ==
    /\ pc = "c_createzone"
    /\ \E res \in ApiResults, st \in SubmitStatuses :
         LET z == NewZone(normalizeDomain(Domain)) IN
         /\ calls' = LogSubmit("dst", "CreateHostedZone", normalizeDomain(Domain), <<>>,
                               res, IF res = "ok" THEN Len(changeStatus) + 1 ELSE 0, st)
         /\ IF res # "ok"
            THEN /\ Return(res)
                 /\ st = "PENDING"
                 /\ UNCHANGED <<zones, changeStatus, waiter, loc>>
            ELSE /\ zones' = [zones EXCEPT !["dst"] = InsertZone(@, z)]
                 /\ changeStatus' = Append(changeStatus, st)
                 /\ loc' = [loc EXCEPT !.dstZoneID = z.Id]
                 /\ UNCHANGED err
                 /\ IF CreateZoneWaits(st)
                    THEN StartWait("dst", Len(changeStatus) + 1, CreateZoneMaxWait,
                                   "c_refetch")
                    ELSE pc' = "c_update" /\ UNCHANGED waiter
    /\ UNCHANGED <<flags, Force, registrar, cancelled, pager, ghz, pvars>>

\* CreateZone, after the wait: r.cli.GetHostedZone by id
CopyRefetchZone ==
    /\ pc = "c_refetch"
    /\ \E res \in ApiResults :
         LET outcome == IF res # "ok" THEN res
                        ELSE IF ~HasZone(zones["dst"], loc.dstZoneID)
                        THEN "NoSuchHostedZone"
                        ELSE "ok"
         IN
         /\ calls' = Log("dst", "GetHostedZone", loc.dstZoneID, <<>>, outcome, 0)
         /\ IF outcome = "ok"
            THEN pc' = "c_update" /\ UNCHANGED err
            ELSE Return(outcome)
    /\ UNCHANGED <<flags, Force, zones, registrar, changeStatus, cancelled,
                   loc, pager, waiter, ghz, pvars>>

AfterUpdateRecords_always(updateNS) == "c_ns_list"

\* if a.UpdateNS { dstService.UpdateNSRecords(...) }; return nil
AfterUpdateRecords(updateNS) == IF updateNS THEN "c_ns_list" ELSE "done"

UpdateRecordsService_src == "src"

\* the client of dstService.UpdateRecords: the destination profile
UpdateRecordsService == "dst"

UpdateRecordsWaits_never(status) == FALSE

\* if changeInfo.Status != rtypes.ChangeStatusInsync: WaitForChange
UpdateRecordsWaits(status) == status # "INSYNC"

\* changeInfo, err := dstService.UpdateRecords(ctx, a.SourceProfile, dstZoneID, changes)
CopyUpdateRecords ==
    /\ pc = "c_update"
    /\ \E res \in ApiResults, st \in SubmitStatuses :
         LET svc == UpdateRecordsService
             applied == IF res # "ok" THEN Fail(res)
                        ELSE IF ~HasZone(zones[svc], loc.dstZoneID)
                        THEN Fail("NoSuchHostedZone")
                        ELSE SubmitBatch(ZoneById(zones[svc], loc.dstZoneID).Records,
                                         loc.changes)
             next == AfterUpdateRecords(UpdateNS)
         IN
         /\ calls' = LogSubmit(svc, "ChangeResourceRecordSets", loc.dstZoneID,
                               loc.changes, applied.kind,
                               IF applied.kind = "ok" THEN Len(changeStatus) + 1 ELSE 0,
                               st)
         /\ IF applied.kind = "ok"
            THEN /\ zones' = [zones EXCEPT
                                 ![svc] = SetRecords(@, loc.dstZoneID, applied.val)]
                 /\ changeStatus' = Append(changeStatus, st)
                 /\ UNCHANGED err
                 /\ IF UpdateRecordsWaits(st)
                    THEN StartWait(svc, Len(changeStatus) + 1, ChangeMaxWait, next)
                    ELSE pc' = next /\ UNCHANGED waiter
            ELSE /\ Return(applied.kind)
                 /\ st = "PENDING"
                 /\ UNCHANGED <<zones, changeStatus, waiter>>
    /\ pager' = NewPager
    /\ UNCHANGED <<flags, Force, registrar, cancelled, loc, ghz, pvars>>

\* UpdateNSRecords: nsRecords, err := r.GetNSRecords(ctx, zoneId)
CopyListNS ==
    /\ pc = "c_ns_list"
    /\ \E res \in ApiResults :
         LET t == GetResourceRecordsTurn("dst", loc.dstZoneID, loc.records, res)
             nsr == GetNSRecords(t.records)
         IN
         /\ calls' = Log("dst", "ListResourceRecordSets", loc.dstZoneID, <<>>, res, 0)
         /\ pager' = t.pager
         /\ IF t.kind = "more"
            THEN /\ loc' = [loc EXCEPT !.records = t.records]
                 /\ UNCHANGED <<pc, err>>
            ELSE IF t.kind = "done"
            THEN IF nsr.kind = "ok"
                 THEN /\ loc' = [loc EXCEPT !.records = t.records,
                                            !.nsRecords = nsr.val]
                      /\ pc' = "c_ns_detail"
                      /\ UNCHANGED err
                 ELSE /\ loc' = [loc EXCEPT !.records = t.records]
                      /\ Return(nsr.kind)
            ELSE /\ loc' = [loc EXCEPT !.records = t.records]
                 /\ Return(t.kind)
    /\ UNCHANGED <<flags, Force, zones, registrar, changeStatus, cancelled,
                   waiter, ghz, pvars>>

\* UpdateNSRecords: r.domains.GetDomainDetail, then the match
CopyGetDomainDetail ==
    /\ pc = "c_ns_detail"
    /\ \E res \in ApiResults :
         /\ calls' = Log("dst", "GetDomainDetail", Domain, <<>>, res, 0)
         /\ IF res # "ok"
            THEN Return(res) /\ UNCHANGED loc
            ELSE IF MatchNSRecords(registrar, loc.nsRecords)
            THEN /\ loc' = [loc EXCEPT !.ddo = registrar, !.updated = FALSE]
                 /\ Return("none")
            ELSE /\ loc' = [loc EXCEPT !.ddo = registrar]
                 /\ pc' = "c_ns_update"
                 /\ UNCHANGED err
    /\ UNCHANGED <<flags, Force, zones, registrar, changeStatus, cancelled,
                   pager, waiter, ghz, pvars>>

\* UpdateNSRecords: r.domains.UpdateDomainNameservers
CopyUpdateNameservers ==
    /\ pc = "c_ns_update"
    /\ \E res \in ApiResults :
         LET newNS == nameserversFromRecords(loc.nsRecords) IN
         /\ calls' = Log("dst", "UpdateDomainNameservers", Domain, newNS, res, 0)
         /\ IF res # "ok"
            THEN Return(res) /\ UNCHANGED <<loc, registrar>>
            ELSE /\ registrar' = newNS
                 /\ loc' = [loc EXCEPT !.updated = TRUE]
                 /\ Return("none")
    /\ UNCHANGED <<flags, Force, zones, changeStatus, cancelled, pager, waiter,
                   ghz, pvars>>

\* -------------------------------------------------------------- the program
Next ==
    \/ DeleteGetZone
    \/ DeleteGetRecords
    \/ DeleteResolve
    \/ DeletePrompt
    \/ DeleteRecords
    \/ DeleteHostedZone
    \/ CopyGetZone
    \/ CopyGetRecords
    \/ CopyDryRun
    \/ CopyGetOrCreateZone
    \/ CopyCreateZone
    \/ CopyRefetchZone
    \/ CopyUpdateRecords
    \/ CopyListNS
    \/ CopyGetDomainDetail
    \/ CopyUpdateNameservers
    \/ WaitForChange
    \/ Propagate
    \/ Cancel

Spec == Init /\ [][Next]_vars


\* the steps of Run, as opposed to those of the provider and of the caller
Program ==
    \/ DeleteGetZone
    \/ DeleteGetRecords
    \/ DeleteResolve
    \/ DeletePrompt
    \/ DeleteRecords
    \/ DeleteHostedZone
    \/ CopyGetZone
    \/ CopyGetRecords
    \/ CopyDryRun
    \/ CopyGetOrCreateZone
    \/ CopyCreateZone
    \/ CopyRefetchZone
    \/ CopyUpdateRecords
    \/ CopyListNS
    \/ CopyGetDomainDetail
    \/ CopyUpdateNameservers
    \/ WaitForChange

\* Run is a sequential program: it takes its next step whenever it has one.
\* Nothing is assumed of the provider's propagation or of the caller.
LiveSpec == Init /\ [][Next]_vars /\ WF_vars(Program)

\* ------------------------------------------- harness of the pure functions
BoundedSeq(S, n) == UNION {[1..k -> S] : k \in 0..n}

PureRecords ==
    { RR(n, t, 300, <<<<"v">>>>, Nil, Nil) :
          n \in {ApexName, DomainNoDot, WwwName}, t \in {"A", "NS", "SOA"} }
    \cup { RR(WwwName, "A", 60, <<<<"v">>, <<"w">>>>, "blue", 10) }

MainIdle ==
    /\ cmd = "off"
    /\ Domain = <<>>
    /\ DryRun = FALSE
    /\ forceFlag = FALSE
    /\ Force = FALSE
    /\ UpdateNS = FALSE
    /\ zones = [a \in {"src", "dst"} |-> <<>>]
    /\ zones0 = zones
    /\ registrar = <<>>
    /\ registrar0 = registrar
    /\ changeStatus = <<>>
    /\ cancelled = FALSE
    /\ pc = "off"
    /\ err = "none"
    /\ loc = NoLoc
    /\ pager = NewPager
    /\ waiter = NoWaiter
    /\ calls = <<>>
    /\ ghz = NoGhz

\* a domain and a listing: the arguments of CreateChanges, DeleteRecords and
\* GetNSRecords
RecordInputs ==
    /\ pstate = "input"
    /\ pdomain \in Domains
    /\ precs \in BoundedSeq(PureRecords, MaxRecs)
    /\ parg = <<>>

\* nameserver names as the registrar and the resolver report them
MatchNames == {<<"ns1">>, <<"ns2">>, <<"ns1", ".">>}

\* values of an NS record set as the zone lists them
MatchValues == {<<"ns1", ".">>, <<"ns2", ".">>, <<"ns1">>}

\* a nameserver list and an NS record set: the arguments of MatchNSRecords
MatchInputs ==
    /\ pstate = "ns-input"
    /\ pdomain = <<>>
    /\ precs = <<>>
    /\ \E ns \in BoundedSeq({[Name |-> n] : n \in MatchNames}, MaxRecs),
          values \in BoundedSeq(MatchValues, MaxRecs) :
          parg = [ns |-> ns, rs |-> RR(ApexName, "NS", 300, values, Nil, Nil)]

\* a domain string: the argument of normalizeDomain and denormalizeDomain
StringInputs ==
    /\ pstate = "str-input"
    /\ pdomain \in BoundedSeq({"a", "b", Dot}, MaxLen)
    /\ precs = <<>>
    /\ parg = <<>>

\* the clock read by time.Now().Unix(), before any CreateZone call
ClockInputs ==
    /\ pstate = "clock"
    /\ pdomain = <<>>
    /\ precs = <<>>
    /\ parg = [now |-> 0]

PureInit ==
    /\ MainIdle
    /\ pchanges = <<>>
    /\ pout = <<>>
    /\ \/ RecordInputs
       \/ MatchInputs
       \/ StringInputs
       \/ ClockInputs

\* changes := r.CreateChanges(domain, recordSets)
ApplyCreateChanges ==
    /\ pstate = "input"
    /\ pchanges' = CreateChanges(pdomain, precs)
    /\ pstate' = "changes"
    /\ UNCHANGED <<mvars, pdomain, precs, parg, pout>>

\* dns.MatchNSRecords(ns, nsRecords)
ApplyMatchNSRecords ==
    /\ pstate = "ns-input"
    /\ pout' = MatchNSRecords(parg.ns, parg.rs)
    /\ pstate' = "matched"
    /\ UNCHANGED <<mvars, pdomain, precs, pchanges, parg>>

\* denormalizeDomain(normalizeDomain(domain))
ApplyNormalize ==
    /\ pstate = "str-input"
    /\ pout' = [normalized |-> normalizeDomain(pdomain),
                back |-> denormalizeDomain(normalizeDomain(pdomain))]
    /\ pstate' = "normalized"
    /\ UNCHANGED <<mvars, pdomain, precs, pchanges, parg>>

\* DeleteRecords(ctx, zoneId, records), up to the batch it submits
ApplyDeleteRecords ==
    /\ pstate = "input"
    /\ pout' = DeleteChanges(precs)
    /\ pstate' = "deleted"
    /\ UNCHANGED <<mvars, pdomain, precs, pchanges, parg>>

\* GetNSRecords(ctx, zoneId), from the listing on
ApplyGetNSRecords ==
    /\ pstate = "input"
    /\ pout' = GetNSRecords(precs)
    /\ pstate' = "nsrecords"
    /\ UNCHANGED <<mvars, pdomain, precs, pchanges, parg>>

\* fmt.Sprintf("%s-%d", domain, time.Now().Unix())
CallerReference(domain, now) == domain \o <<"-", ToString(now)>>

\* CreateZone(ctx, domain), up to the input of CreateHostedZone
ApplyCreateZone ==
    /\ pstate = "clock"
    /\ Len(pout) < MaxCreates
    /\ \E domain \in Domains :
         pout' = Append(pout, [Name |-> normalizeDomain(domain),
                               CallerReference |-> CallerReference(domain, parg.now)])
    /\ UNCHANGED <<mvars, pstate, pdomain, precs, pchanges, parg>>

\* a second passes
Tick ==
    /\ pstate = "clock"
    /\ parg.now < MaxNow
    /\ parg' = [now |-> parg.now + 1]
    /\ UNCHANGED <<mvars, pstate, pdomain, precs, pchanges, pout>>

\* UpdateNSRecords(ctx, domain, zoneId) with its three calls succeeding, the
\* zone's NS record set being nsRecords and the registrar holding registrarNS:
\* the boolean returned and what the registrar holds afterwards
UpdateNSRecords(registrarNS, nsRecords) ==
    IF MatchNSRecords(registrarNS, nsRecords)
    THEN [updated |-> FALSE, registrar |-> registrarNS]
    ELSE [updated |-> TRUE, registrar |-> nameserversFromRecords(nsRecords)]

\* two calls of UpdateNSRecords in a row, the zone untouched in between
ApplyUpdateNSRecordsTwice ==
    /\ pstate = "ns-input"
    /\ LET first == UpdateNSRecords(parg.ns, parg.rs)
           second == UpdateNSRecords(first.registrar, parg.rs)
       IN  pout' = [first |-> first, second |-> second]
    /\ pstate' = "updated-twice"
    /\ UNCHANGED <<mvars, pdomain, precs, pchanges, parg>>

PureNext ==
    \/ ApplyCreateChanges
    \/ ApplyUpdateNSRecordsTwice
    \/ ApplyCreateZone
    \/ Tick
    \/ ApplyDeleteRecords
    \/ ApplyGetNSRecords
    \/ ApplyMatchNSRecords
    \/ ApplyNormalize

PureSpec == PureInit /\ [][PureNext]_vars


\* ================================================================== claims
\* vocabulary of the claims, stated on the log of API calls
CallIdx == 1..Len(calls)

\* positions of the calls that delete records or a zone (route53delete
\* submits no change batch other than the one of DeleteRecords)
DeletionCalls ==
    {i \in CallIdx : \/ calls[i].op = "DeleteHostedZone"
                     \/ (cmd = "delete" /\ calls[i].op = "ChangeResourceRecordSets")}

\* positions of the calls that change an account or the registrar
MutatingCalls ==
    {i \in CallIdx : calls[i].op \in {"CreateHostedZone", "ChangeResourceRecordSets",
                                      "DeleteHostedZone", "UpdateDomainNameservers"}}

\* change c was seen INSYNC by a poll strictly between positions i and j
SeenInSync(c, i, j) ==
    \E k \in CallIdx : /\ i < k
                       /\ k < j
                       /\ calls[k].op = "GetChange"
                       /\ calls[k].id = c
                       /\ calls[k].res = "INSYNC"

WithDot(d) == IF d # <<>> /\ d[Len(d)] = "." THEN d ELSE d \o <<".">>
WithoutDot(d) == IF d # <<>> /\ d[Len(d)] = "." THEN SubSeq(d, 1, Len(d) - 1) ELSE d

ApexInfra(rs, apex) == rs.Type \in {"NS", "SOA"} /\ rs.Name = apex

\* every value of the NS record set is, dot stripped, a resolved nameserver
NsMatch(ns, rs) ==
    \A i \in 1..Len(rs.ResourceRecords) :
        \E j \in 1..Len(ns) : ns[j].Name = WithoutDot(rs.ResourceRecords[i])

\* C1: in route53delete, when the resolved nameservers match the zone's NS
\* record set and --force was not given, no record deletion and no zone
\* deletion is issued and Run returns nil.
C1_NoDeletionOnNsMatch ==
    (/\ cmd = "delete"
     /\ ~forceFlag
     /\ loc.nsOutcome = "ok"
     /\ loc.nsRecords.Type = "NS"
     /\ NsMatch(loc.ns, loc.nsRecords))
    => (/\ DeletionCalls = {}
        /\ pc = "done"
        /\ err = "none"
        /\ zones = zones0)

C1_Witness ==
    /\ cmd = "delete"
    /\ ~forceFlag
    /\ ~DryRun
    /\ loc.nsOutcome = "ok"
    /\ loc.nsRecords = SrcNS
    /\ NsMatch(loc.ns, loc.nsRecords)
    /\ Len(loc.recordSets) = 4
    /\ pc = "done"

\* C2: DeleteHostedZone is issued only after DeleteRecords returned a change
\* and a poll saw that change INSYNC; after a failed DeleteRecords or a wait
\* that timed out on that change no zone deletion is issued.
C2_ZoneDeletedAfterRecordsInSync ==
    /\ \A i \in CallIdx :
         calls[i].op = "DeleteHostedZone" =>
             \E j \in CallIdx :
                 /\ j < i
                 /\ calls[j].op = "ChangeResourceRecordSets"
                 /\ calls[j].res = "ok"
                 /\ SeenInSync(calls[j].id, j, i)
    /\ (\E j \in CallIdx : /\ calls[j].op = "ChangeResourceRecordSets"
                           /\ calls[j].acct = "src"
                           /\ calls[j].res # "ok")
         => \A i \in CallIdx : calls[i].op # "DeleteHostedZone"
    /\ (cmd = "delete" /\ err = "timeout" /\ waiter.ret = "d_delzone")
         => \A i \in CallIdx : calls[i].op # "DeleteHostedZone"

C2_Witness ==
    /\ cmd = "delete"
    /\ \E i \in CallIdx :
         /\ calls[i].op = "DeleteHostedZone"
         /\ calls[i].res = "ok"
         /\ \E k \in CallIdx : /\ k < i
                               /\ calls[k].op = "GetChange"
                               /\ calls[k].res = "PENDING"

\* C3: CreateChanges(D, R) holds no change for an NS or SOA record set whose
\* name is D with its trailing dot, whether or not D was given with the dot.
C3_NoApexInfraInChanges ==
    pstate = "changes" =>
        \A i \in 1..Len(pchanges) :
            ~ApexInfra(pchanges[i].ResourceRecordSet, WithDot(pdomain))

C3_Witness ==
    /\ pstate = "changes"
    /\ pdomain = DomainNoDot
    /\ Len(precs) = 3
    /\ precs[1].Type = "NS"
    /\ precs[1].Name = DomainDot
    /\ Len(pchanges) = 2

\* C4: CreateChanges(D, R) is, in input order, one UPSERT per input record
\* set that is not an apex NS or SOA, the record set unchanged in every field;
\* non-apex NS and SOA and repeated inputs are kept.
C4_ChangesAreInputInOrder ==
    pstate = "changes" =>
        LET kept == SelectSeq(precs, LAMBDA r : ~ApexInfra(r, WithDot(pdomain))) IN
        /\ Len(pchanges) = Len(kept)
        /\ \A i \in 1..Len(kept) :
             /\ pchanges[i].Action = "UPSERT"
             /\ pchanges[i].ResourceRecordSet = kept[i]

C4_Witness ==
    /\ pstate = "changes"
    /\ Len(precs) = 3
    /\ precs[1] = precs[3]
    /\ precs[1].Type = "NS"
    /\ precs[1].Name = WwwName
    /\ precs[2].SetIdentifier = "blue"
    /\ Len(pchanges) = 3

\* C5: with --dry neither workflow issues a create-zone, change-batch,
\* delete-zone or update-nameservers call, and accounts and registrar stay
\* as they were at the start of the run.
C5_DryRunChangesNothing ==
    DryRun => (/\ MutatingCalls = {}
               /\ zones = zones0
               /\ registrar = registrar0)

C5_Witness ==
    /\ DryRun
    /\ cmd = "copy"
    /\ UpdateNS
    /\ pc = "done"
    /\ err = "none"
    /\ Len(loc.changes) = 2

\* C6: route53delete issues a deletion only after the prompt was answered
\* "y", with or without --force; any other answer and a failed prompt end
\* the run with nil and nothing deleted.
C6_NoDeletionWithoutConfirmation ==
    cmd = "delete" =>
        /\ DeletionCalls # {} => loc.prompt = "y"
        /\ loc.prompt \in {"n", "Y", "err"} =>
               (/\ pc = "done"
                /\ err = "none"
                /\ DeletionCalls = {}
                /\ zones = zones0)

C6_Witness ==
    /\ cmd = "delete"
    /\ forceFlag
    /\ loc.prompt = "n"
    /\ Len(loc.recordSets) = 2
    /\ pc = "done"


\* the record sets of a listing that are not the NS or SOA of the apex
NonApexInfra(records, apex) == SelectSeq(records, LAMBDA r : ~ApexInfra(r, apex))
OnlyApexInfra(records, apex) == SelectSeq(records, LAMBDA r : ApexInfra(r, apex))

\* positions of the change batches submitted to the destination account
DstBatches ==
    {i \in CallIdx : calls[i].op = "ChangeResourceRecordSets" /\ calls[i].acct = "dst"}

\* C7: route53delete with --force, the domain not resolving, the operator
\* answering "y": unless an API call fails, the run ends with every record
\* set but the apex NS and SOA deleted in one batch, that change seen INSYNC,
\* then the zone deleted and that change seen INSYNC.
ScenarioC ==
    /\ cmd = "delete"
    /\ forceFlag
    /\ loc.nsOutcome = "notfound"
    /\ loc.prompt = "y"

DeletedRecordsThenZone ==
    /\ ~HasZone(zones["src"], loc.srcZoneID)
    /\ \E i, j \in CallIdx :
         /\ i < j
         /\ calls[i].op = "ChangeResourceRecordSets"
         /\ calls[i].res = "ok"
         /\ calls[i].arg = loc.srcZoneID
         /\ LET before == NonApexInfra(ZoneById(zones0["src"], loc.srcZoneID).Records,
                                       WithDot(Domain))
            IN  /\ Len(calls[i].batch) = Len(before)
                /\ \A n \in 1..Len(before) :
                     /\ calls[i].batch[n].Action = "DELETE"
                     /\ calls[i].batch[n].ResourceRecordSet = before[n]
         /\ SeenInSync(calls[i].id, i, j)
         /\ calls[j].op = "DeleteHostedZone"
         /\ calls[j].res = "ok"
         /\ calls[j].arg = loc.srcZoneID
         /\ SeenInSync(calls[j].id, j, Len(calls) + 1)

C7_ForcedDeleteCompletes ==
    ScenarioC ~> (pc = "done" /\ (err # "none" \/ DeletedRecordsThenZone))

C7_Witness ==
    /\ ScenarioC
    /\ pc = "done"
    /\ err = "none"
    /\ DeletedRecordsThenZone
    /\ zones0["src"][1].Records = <<SrcNS, SrcSOA, WwwA>>
    /\ \E k \in CallIdx : calls[k].op = "GetChange" /\ calls[k].res = "PENDING"

\* C8: after a copy that was not a dry run and returned nil, the apex NS and
\* SOA of the destination zone are those it had before (those the provider
\* gave it when the copy created the zone), and the one batch submitted holds
\* exactly the source record sets that are not apex NS or SOA.
C8_CopyLeavesDestinationApex ==
    (cmd = "copy" /\ ~DryRun /\ pc = "done" /\ err = "none") =>
        LET apex == WithDot(Domain)
            dz == ZoneById(zones["dst"], loc.dstZoneID)
            src == ZoneById(zones0["src"], loc.srcZoneID)
            was == IF HasZone(zones0["dst"], loc.dstZoneID)
                   THEN ZoneById(zones0["dst"], loc.dstZoneID).Records
                   ELSE <<RR(apex, "NS", 172800, <<NsNew1>>, Nil, Nil),
                          RR(apex, "SOA", 900, <<SoaNew>>, Nil, Nil)>>
            copied == NonApexInfra(src.Records, apex)
        IN  /\ OnlyApexInfra(dz.Records, apex) = OnlyApexInfra(was, apex)
            /\ Cardinality(DstBatches) = 1
            /\ \A i \in DstBatches :
                 /\ calls[i].arg = loc.dstZoneID
                 /\ Len(calls[i].batch) = Len(copied)
                 /\ \A n \in 1..Len(copied) :
                      /\ calls[i].batch[n].Action = "UPSERT"
                      /\ calls[i].batch[n].ResourceRecordSet = copied[n]

C8_Witness ==
    /\ cmd = "copy"
    /\ ~DryRun
    /\ pc = "done"
    /\ err = "none"
    /\ zones0["src"] = <<[Id |-> "Zsrc", Name |-> DomainDot,
                          Records |-> <<SrcNS, SrcSOA, WwwA>>]>>
    /\ zones0["dst"] = <<[Id |-> "Zdst", Name |-> DomainDot,
                          Records |-> <<DstNS, DstSOA>>]>>
    /\ zones["dst"][1].Records = <<DstNS, DstSOA, WwwA>>
    /\ \A i \in DstBatches : Len(calls[i].batch) = 1

\* C9: GetHostedZone answers HostedZoneNotFound when the listing is empty and
\* when the first zone listed is not named normalizeDomain(domain); it
\* returns the first zone listed only when it has exactly that name, so no
\* call of the run is made on a zone of another name.
C9_GetHostedZoneExactName ==
    /\ ghz.res = "ok" =>
         LET exact == Len(ghz.resp) > 0 /\ ghz.resp[1].Name = WithDot(Domain) IN
         /\ exact => ghz.result = Ok(ghz.resp[1])
         /\ ~exact => ghz.result.kind = "HostedZoneNotFound"
    /\ \A i \in CallIdx :
         calls[i].op \in {"ListResourceRecordSets", "ChangeResourceRecordSets",
                          "DeleteHostedZone", "GetHostedZone"}
             => /\ HasZone(zones[calls[i].acct], calls[i].arg)
                    => ZoneById(zones[calls[i].acct], calls[i].arg).Name
                           = WithDot(Domain)
                /\ calls[i].arg \notin {"Zsrc-other", "Zdst-other"}

C9_Witness ==
    /\ ghz.res = "ok"
    /\ Len(ghz.resp) = 1
    /\ ghz.resp[1].Name = OtherZoneName
    /\ ghz.result.kind = "HostedZoneNotFound"
    /\ ghz.acct = "dst"
    /\ pc = "c_createzone"

\* C10: WaitForChange always returns: with nil only after a poll that saw the
\* change INSYNC, and otherwise with an error, on a failed or cancelled poll
\* or when the change is still PENDING and maxWait is used up.
LastCall == calls[Len(calls)]

WaitReturn ==
    (pc = "wait" /\ pc' # "wait") =>
        /\ LastCall'.op = "GetChange"
        /\ LastCall'.id = waiter.id
        /\ \/ err' = "none" /\ LastCall'.res = "INSYNC" /\ pc' = waiter.ret
           \/ /\ err' = "timeout"
              /\ LastCall'.res = "PENDING"
              /\ waiter.remaining < MinDelay
              /\ pc' = "done"
           \/ err' = "cancelled" /\ cancelled /\ pc' = "done"
           \/ err' = "api" /\ LastCall'.res = "api" /\ pc' = "done"

C10_WaitForChangeReturns ==
    /\ [](pc = "wait" => <>(pc # "wait"))
    /\ [][WaitReturn]_vars

C10_Witness ==
    /\ pc = "done"
    /\ err = "timeout"
    /\ ~cancelled
    /\ LastCall.op = "GetChange"
    /\ LastCall.res = "PENDING"
    /\ waiter.remaining = 0

NameSet(ns) == {ns[i].Name : i \in 1..Len(ns)}
StrippedValues(rs) ==
    {WithoutDot(rs.ResourceRecords[i]) : i \in 1..Len(rs.ResourceRecords)}

\* C11: MatchNSRecords(ns, rs) is true exactly when every value of the NS
\* record set, its trailing dot stripped, is the name of some entry of ns.
\* The result is a function of the two sets alone, so neither the order nor
\* duplicates matter, and a strict superset of the zone's values matches.
C11_MatchIsSubsetCheck ==
    pstate = "matched" =>
        (pout <=> StrippedValues(parg.rs) \subseteq NameSet(parg.ns))

\* the nameserver list holds a duplicate and a name the zone does not list,
\* in another order than the zone's values, and matches
C11_Witness ==
    /\ pstate = "matched"
    /\ pout = TRUE
    /\ Len(parg.rs.ResourceRecords) = 2
    /\ Cardinality(StrippedValues(parg.rs)) = 2
    /\ Len(parg.ns) = 3
    /\ parg.ns[1].Name = WithoutDot(parg.rs.ResourceRecords[2])
    /\ StrippedValues(parg.rs) # NameSet(parg.ns)

EndsWithDot(d) == d # <<>> /\ d[Len(d)] = "."

\* C13: for a domain string x without a trailing dot,
\* denormalizeDomain(normalizeDomain(x)) = x; and for every x,
\* normalizeDomain(x) ends with a dot and is denormalizeDomain of it followed
\* by that one dot.
C13_NormalizeRoundTrip ==
    pstate = "normalized" =>
        /\ ~EndsWithDot(pdomain) => pout.back = pdomain
        /\ EndsWithDot(pout.normalized)
        /\ pout.normalized = pout.back \o <<".">>

\* a string with inner dots and no trailing dot comes back unchanged
C13_Witness ==
    /\ pstate = "normalized"
    /\ pdomain = <<"a", ".", "b">>
    /\ pout.normalized = <<"a", ".", "b", ".">>
    /\ pout.back = pdomain

\* positions of the calls that read or update the registrar's nameservers
RegistrarCalls ==
    {i \in CallIdx : calls[i].op \in {"GetDomainDetail", "UpdateDomainNameservers"}}

\* C12: in route53copy the registrar's nameservers are read or updated only
\* when --update-ns was given; without it the registrar holds after the run
\* what it held before.
C12_RegistrarOnlyWithUpdateNS ==
    cmd = "copy" =>
        /\ RegistrarCalls # {} => UpdateNS
        /\ ~UpdateNS => registrar = registrar0

\* a copy without --update-ns ran to its end, the records were written, and
\* the registrar still names other nameservers than the destination zone
C12_Witness ==
    /\ cmd = "copy"
    /\ ~UpdateNS
    /\ pc = "done"
    /\ err = "none"
    /\ \E i \in DstBatches : calls[i].res = "ok"
    /\ HasZone(zones["dst"], "Zdst")
    /\ ~NsMatch(registrar, DstNS)
    /\ RegistrarCalls = {}

\* C14: the batch of DeleteRecords holds a DELETE change for every given
\* record set except the NS and SOA record sets at the zone apex, in the
\* order given; NS and SOA record sets at other names are in the batch.
C14_DeleteRecordsSkipsOnlyApexInfra ==
    pstate = "deleted" =>
        LET kept == NonApexInfra(precs, WithDot(pdomain)) IN
        /\ Len(pout) = Len(kept)
        /\ \A i \in 1..Len(kept) :
               /\ pout[i].Action = "DELETE"
               /\ pout[i].ResourceRecordSet = kept[i]

\* the record sets named as the zone itself and typed NS
OwnNS(records, apex) ==
    SelectSeq(records, LAMBDA r : r.Type = "NS" /\ r.Name = apex)

CreateCalls == {i \in CallIdx : calls[i].op = "CreateHostedZone"}
CreatedAt == {i \in CreateCalls : calls[i].res = "ok"}

\* the creation change of call i was reported INSYNC, by the response of the
\* call or by a later poll
ObservedInSync(i) ==
    \/ calls[i].status = "INSYNC"
    \/ SeenInSync(calls[i].id, i, Len(calls) + 1)

\* where the provisioning of the destination zone stands
ZonePhase ==
    IF CreateCalls = {}
    THEN IF pc = "c_createzone" THEN "Creating" ELSE "Absent"
    ELSE IF CreatedAt = {} THEN "Failed"
    ELSE IF \A i \in CreatedAt : ObservedInSync(i) THEN "InSync"
    ELSE "PendingSync"

\* InSync is entered from PendingSync, or straight from Creating when the
\* response of the create call already reports INSYNC
PhaseStep ==
    \/ ZonePhase' = ZonePhase
    \/ ZonePhase = "Absent" /\ ZonePhase' = "Creating"
    \/ ZonePhase = "Creating" /\ ZonePhase' \in {"PendingSync", "Failed"}
    \/ ZonePhase = "Creating" /\ ZonePhase' = "InSync"
                              /\ LastCall'.status = "INSYNC"
    \/ ZonePhase = "PendingSync" /\ ZonePhase' = "InSync"
                                 /\ LastCall'.op = "GetChange"

\* GetOrCreateZone has returned a zone: Run is at UpdateRecords or past it
PastGetOrCreateZone == cmd = "copy" /\ (pc = "c_update" \/ DstBatches # {})

\* C15: a create-zone call is issued only after GetHostedZone on the
\* destination reported HostedZoneNotFound, never for an account that holds
\* a zone of exactly the domain's name; GetOrCreateZone returns a created
\* zone only once its creation change was observed INSYNC; and the
\* provisioning moves only forward along Absent, Creating, PendingSync,
\* InSync.
C15_CreateOnlyWhenAbsentAndAwaited ==
    /\ [](CreateCalls # {} =>
            /\ ghz.acct = "dst"
            /\ ghz.result.kind = "HostedZoneNotFound"
            /\ Cardinality(CreateCalls) = 1
            /\ ~\E k \in 1..Len(zones0["dst"]) : zones0["dst"][k].Name = WithDot(Domain))
    /\ []((PastGetOrCreateZone /\ CreateCalls # {}) => ZonePhase = "InSync")
    /\ [][PhaseStep]_vars

\* the account held a zone of another name only, the zone was created with
\* its change PENDING, a poll saw it INSYNC, and the records were written
C15_Witness ==
    /\ cmd = "copy"
    /\ zones0["dst"] # <<>>
    /\ \E i \in CreatedAt : /\ calls[i].status = "PENDING"
                            /\ SeenInSync(calls[i].id, i, Len(calls) + 1)
    /\ \E j \in DstBatches : calls[j].res = "ok"
    /\ pc = "done"
    /\ err = "none"

UpdateCalls == {i \in CallIdx : calls[i].op = "UpdateDomainNameservers"}
DetailRead == \E i \in CallIdx : calls[i].op = "GetDomainDetail" /\ calls[i].res = "ok"

\* the NS record set at the apex of the destination zone
DstZoneNS ==
    OwnNS(ZoneById(zones["dst"], loc.dstZoneID).Records, WithDot(Domain))[1]

\* the values of an NS record set as nameservers, trailing dots stripped
StrippedNameservers(rs) ==
    [k \in 1..Len(rs.ResourceRecords) |-> [Name |-> WithoutDot(rs.ResourceRecords[k])]]

\* C16: UpdateNSRecords issues a registrar update exactly when the
\* registrar's nameservers do not match the zone's NS record set; the update
\* asks for the zone's NS values, trailing dots stripped, and a successful
\* update leaves the registrar with exactly those; it returns true exactly
\* when an update was issued and succeeded, and when it returns false the
\* registrar is unchanged.
C16_UpdateNSRecordsIffMismatch ==
    cmd = "copy" =>
        /\ UpdateCalls # {} => (DetailRead /\ ~NsMatch(registrar0, DstZoneNS))
        /\ (DetailRead /\ pc = "done") =>
               (UpdateCalls # {} <=> ~NsMatch(registrar0, DstZoneNS))
        /\ \A i \in UpdateCalls :
               /\ calls[i].batch = StrippedNameservers(DstZoneNS)
               /\ calls[i].res = "ok" => registrar = StrippedNameservers(DstZoneNS)
        /\ loc.updated <=> (\E i \in UpdateCalls : calls[i].res = "ok")
        /\ ~loc.updated => registrar = registrar0

\* the registrar named another nameserver, the update was issued and went
\* through, and the registrar now names the zone's nameservers without dots
C16_Witness ==
    /\ cmd = "copy"
    /\ pc = "done"
    /\ err = "none"
    /\ loc.updated
    /\ \E i \in UpdateCalls : calls[i].res = "ok"
    /\ registrar # registrar0
    /\ registrar = <<[Name |-> <<"ns-dst1">>], [Name |-> <<"ns-dst2">>]>>

\* C18: every CreateZone call carries a caller reference different from the
\* caller reference of every earlier CreateZone call, calls for the same
\* domain within one clock second included.
C18_CallerReferencesDistinct ==
    pstate = "clock" =>
        \A i, j \in 1..Len(pout) :
            i < j => pout[i].CallerReference # pout[j].CallerReference

\* C19: in route53delete, when the resolver reports NSRecordNotFound the run
\* is not aborted: it goes on in forced mode, whether or not --force was
\* given, so it is never ended by the NS match and reaches the dry-run
\* return or the prompt; on any other resolver error the run ends with that
\* error and nothing is deleted.
C19_NotFoundForcesResolverErrorAborts ==
    cmd = "delete" =>
        /\ loc.nsOutcome = "notfound" =>
               /\ Force
               /\ (pc = "done" /\ err = "none") => (DryRun \/ loc.prompt # Nil)
        /\ loc.nsOutcome = "err" =>
               /\ pc = "done"
               /\ err = "resolver"
               /\ DeletionCalls = {}
               /\ zones = zones0

\* --force was not given, the domain did not resolve, the operator said yes
\* and the zone is gone
C19_Witness ==
    /\ cmd = "delete"
    /\ ~forceFlag
    /\ loc.nsOutcome = "notfound"
    /\ loc.prompt = "y"
    /\ pc = "done"
    /\ err = "none"
    /\ zones["src"] = <<>>
    /\ zones0["src"] # <<>>

\* the results an API call logs when it did not fail
Answered == {"ok", "PENDING", "INSYNC"}
FailedCalls == {i \in CallIdx : calls[i].res \notin Answered}

\* C20: in both workflows a failed API call, a failed create-zone call and a
\* propagation timeout included, is the last call of the run: the run ends
\* with that error, nothing is retried, no later step runs, and nothing is
\* undone: a zone created earlier is still there, a zone or record set
\* deleted earlier is not put back.
C20_FailedCallEndsRun ==
    /\ \A i \in FailedCalls : /\ i = Len(calls)
                              /\ pc = "done"
                              /\ err = calls[i].res
    /\ err = "timeout" => /\ pc = "done"
                          /\ LastCall.op = "GetChange"
                          /\ LastCall.res = "PENDING"
    /\ \A i \in CreatedAt : HasZone(zones["dst"], "Znew")
    /\ cmd = "copy" => \A i \in CallIdx : calls[i].op # "DeleteHostedZone"
    /\ cmd = "delete" =>
           \A i \in CallIdx :
               /\ calls[i].op # "CreateHostedZone"
               /\ \A k \in 1..Len(calls[i].batch) : calls[i].batch[k].Action = "DELETE"

\* the destination zone was created and seen INSYNC, then the write of the
\* records failed: the run ended with that error and the new zone remains
C20_Witness ==
    /\ cmd = "copy"
    /\ CreatedAt # {}
    /\ LastCall.op = "ChangeResourceRecordSets"
    /\ LastCall.res = "api"
    /\ pc = "done"
    /\ err = "api"
    /\ HasZone(zones["dst"], "Znew")

\* positions of the calls of UpdateNSRecords: the listing of the destination
\* zone for GetNSRecords and the two registrar calls
ReconcileCalls ==
    {j \in CallIdx : \/ j \in RegistrarCalls
                     \/ (cmd = "copy" /\ calls[j].acct = "dst"
                                      /\ calls[j].op = "ListResourceRecordSets")}

\* the batch submitted at position i was reported INSYNC before position j,
\* by the response of the submit or by a poll
BatchInSyncBefore(i, j) ==
    /\ i < j
    /\ calls[i].res = "ok"
    /\ calls[i].status = "INSYNC" \/ SeenInSync(calls[i].id, i, j)

\* C21: in route53copy with --update-ns, no call of the registrar
\* reconciliation is made before the change batch submitted to the
\* destination was seen INSYNC, at once or by the bounded wait; when that
\* wait times out no such call is made.
C21_ReconcileAfterBatchInSync ==
    cmd = "copy" =>
        /\ \A j \in ReconcileCalls : \E i \in DstBatches : BatchInSyncBefore(i, j)
        /\ err = "timeout" => ReconcileCalls = {}

\* the batch came back PENDING, a poll saw it INSYNC, and then the registrar
\* was read
C21_Witness ==
    /\ cmd = "copy"
    /\ UpdateNS
    /\ \E i \in DstBatches :
          /\ calls[i].status = "PENDING"
          /\ \E j \in RegistrarCalls : SeenInSync(calls[i].id, i, j)

\* positions of the page requests of GetResourceRecords on the source zone
SrcListCalls ==
    {i \in CallIdx : calls[i].acct = "src" /\ calls[i].op = "ListResourceRecordSets"}

\* the record sets of the source zone, as the provider lists them
SrcRecords == ZoneById(zones0["src"], loc.srcZoneID).Records

\* pages a listing of n record sets takes
Pages(n) == IF n = 0 THEN 1 ELSE (n + PageSize - 1) \div PageSize

Listing == pc \in {"c_records", "d_records"}

\* GetResourceRecords has just returned its records with a nil error
Listed ==
    \/ cmd = "copy" /\ pc \in {"c_drydst", "c_getorcreate"}
    \/ cmd = "delete" /\ pc = "d_resolve"

ListingSafe ==
    /\ Listing =>
           /\ Cardinality(SrcListCalls) < Pages(Len(SrcRecords))
           /\ loc.recordSets =
                  SubSeq(SrcRecords, 1,
                         Min(Cardinality(SrcListCalls) * PageSize, Len(SrcRecords)))
    /\ Listed =>
           /\ loc.recordSets = SrcRecords
           /\ Cardinality(SrcListCalls) = Pages(Len(SrcRecords))
           /\ \A i \in SrcListCalls : calls[i].res = "ok"
    /\ \A i \in SrcListCalls :
           calls[i].res # "ok" => /\ i = Len(calls)
                                  /\ pc = "done"
                                  /\ err = calls[i].res

\* C22: GetResourceRecords requests page after page until none remains and
\* returns the pages concatenated in page order, every record set of the zone
\* once; the loop ends after as many requests as the listing has pages; an
\* error on a page ends the run with that error, never with a shorter list
\* taken for the whole.
C22_GetResourceRecordsDrainsPages ==
    /\ []ListingSafe
    /\ Listing ~> ~Listing

\* a zone of four record sets listed in more than one page
C22_Witness ==
    /\ Listed
    /\ Len(loc.recordSets) = 4
    /\ Cardinality(SrcListCalls) >= 2
    /\ loc.recordSets = <<SrcNS, SrcSOA, SubNS, WwwA>>

\* the calls that only read
ReadOps == {"ListHostedZonesByName", "ListResourceRecordSets", "GetHostedZone",
            "GetChange", "GetDomainDetail"}

\* C23: route53copy never changes the source account: every call that
\* creates a zone, submits a change batch or updates the registrar goes
\* through the destination client, the source client only lists zones and
\* record sets, and the source account holds after the run what it held
\* before.
C23_CopyLeavesSourceUnchanged ==
    cmd = "copy" =>
        /\ \A i \in MutatingCalls : calls[i].acct = "dst"
        /\ \A i \in CallIdx :
               calls[i].acct = "src" =>
                   calls[i].op \in {"ListHostedZonesByName", "ListResourceRecordSets"}
        /\ \A i \in CallIdx : calls[i].op \in ReadOps \/ i \in MutatingCalls
        /\ zones["src"] = zones0["src"]

\* a copy of four source record sets went through: the destination changed,
\* the source did not
C23_Witness ==
    /\ cmd = "copy"
    /\ pc = "done"
    /\ err = "none"
    /\ \E i \in DstBatches : calls[i].res = "ok" /\ Len(calls[i].batch) = 2
    /\ zones["dst"] # zones0["dst"]
    /\ zones["src"] = zones0["src"]
    /\ Len(zones["src"][1].Records) = 4

Range(s) == {s[i] : i \in 1..Len(s)}

\* the record sets a zone of the destination account held before the run
RecordsBefore(id) ==
    IF HasZone(zones0["dst"], id) THEN ZoneById(zones0["dst"], id).Records ELSE <<>>

\* the record sets of the source zone that the copy carries over
CopiedRecords ==
    IF HasZone(zones0["src"], "Zsrc")
    THEN Range(NonApexInfra(ZoneById(zones0["src"], "Zsrc").Records, WithDot(Domain)))
    ELSE {}

\* C24: route53copy only adds: every change of the batch it submits is an
\* UPSERT; a record set of the destination whose name, type and set
\* identifier are not those of a copied source record set is the same after
\* the copy; and no record set or zone the destination held is ever gone.
C24_CopyIsAdditive ==
    cmd = "copy" =>
        /\ \A i \in DstBatches :
               \A k \in 1..Len(calls[i].batch) : calls[i].batch[k].Action = "UPSERT"
        /\ \A n \in 1..Len(zones0["dst"]) :
               LET id == zones0["dst"][n].Id IN
               /\ HasZone(zones["dst"], id)
               /\ \A r \in Range(RecordsBefore(id)) :
                      LET now == Range(ZoneById(zones["dst"], id).Records) IN
                      /\ \E q \in now : SameIdentity(q, r)
                      /\ (id # "Zdst" \/ ~\E c \in CopiedRecords : SameIdentity(c, r))
                             => r \in now

\* the destination held an older www A record and a TXT record: after the
\* copy the A record is the source's and the TXT record is as it was
C24_Witness ==
    /\ cmd = "copy"
    /\ pc = "done"
    /\ err = "none"
    /\ RecordsBefore("Zdst") = <<DstNS, DstSOA, WwwAOld, WwwTXT>>
    /\ HasZone(zones["dst"], "Zdst")
    /\ ZoneById(zones["dst"], "Zdst").Records = <<DstNS, DstSOA, WwwA, WwwTXT>>

\* C25: UpdateNSRecords is idempotent: when a call returned true and the
\* zone's NS record set has not changed, the call that follows finds the
\* registrar matching, updates nothing and returns false.
C25_UpdateNSRecordsIdempotent ==
    (pstate = "updated-twice" /\ pout.first.updated) =>
        /\ NsMatch(pout.first.registrar, parg.rs)
        /\ ~pout.second.updated
        /\ pout.second.registrar = pout.first.registrar

\* the registrar named ns2 only, the zone lists ns1. and ns2.: the first call
\* updates, the second does not
C25_Witness ==
    /\ pstate = "updated-twice"
    /\ parg.ns = <<[Name |-> <<"ns2">>]>>
    /\ parg.rs.ResourceRecords = <<<<"ns1", ".">>, <<"ns2", ".">>>>
    /\ pout.first.updated
    /\ pout.first.registrar = <<[Name |-> <<"ns1">>], [Name |-> <<"ns2">>]>>
    /\ ~pout.second.updated

\* the destination account held a zone named exactly as the domain
DstHadExactZone ==
    \E n \in 1..Len(zones0["dst"]) : zones0["dst"][n].Name = WithDot(Domain)

\* the dry run has looked the destination zone up and the API answered
DryLookupDone ==
    /\ DryRun
    /\ pc = "done"
    /\ ghz.acct = "dst"
    /\ ghz.res = "ok"

\* C26: in a dry-run copy no zone is created, whatever the destination
\* holds; when the destination has no zone named exactly as the domain the
\* run ends with HostedZoneNotFound, and with nil (the record-count report)
\* only when it has one; a create-zone call is made only without --dry.
C26_DryRunNeverCreates ==
    cmd = "copy" =>
        /\ CreateCalls # {} => ~DryRun
        /\ DryRun => (MutatingCalls = {} /\ zones = zones0)
        /\ DryLookupDone =>
               (IF DstHadExactZone THEN err = "none" ELSE err = "HostedZoneNotFound")

\* a dry run against a destination that holds a zone of another name only
C26_Witness ==
    /\ cmd = "copy"
    /\ DryLookupDone
    /\ zones0["dst"] # <<>>
    /\ ~DstHadExactZone
    /\ err = "HostedZoneNotFound"
    /\ zones = zones0
    /\ calls[Len(calls)].op = "ListHostedZonesByName"

====
